---- MODULE Spec2Model ----
(***************************************************************************)
(* A model of add_milestone3.py: the mapping of the units of CellML        *)
(* variables to OPB ontology codes.                                        *)
(*                                                                         *)
(*   Spec        map_variable_units_to_opb, one step per variable visited  *)
(*   SpecLoad    load_opb_mappings, one step per line of the .ttl file     *)
(*   SpecFetch   download_file, one step per statement                     *)
(*   SpecRun     main, run after run in one working directory, with the    *)
(*               steps of the functions it calls                           *)
(*   SpecReport  generate_comprehensive_statistics, one step per record    *)
(*                                                                         *)
(* libcellml is an external library.  A Units object is modelled by its    *)
(* name and the dimension vector it reduces to; "undefined" is the         *)
(* reduction of a units that refers to a units that does not exist.        *)
(***************************************************************************)
EXTENDS Integers, Sequences, FiniteSets, TLC

VARIABLES
    \* ---- map_variable_units_to_opb: arguments
    model,            \* [units: Seq(Units), components: Seq(Seq(Variable))]
    baseline_units,   \* the dict of parse_baseline_units, in insertion order
    opb_map,          \* the dict of load_opb_mappings: unit name -> codes
    \* ---- map_variable_units_to_opb: locals
    pc,               \* position of the running function (of each one)
    comp_i, var_j,    \* the loop indices i and j (1-based here)
    unit_name,        \* the unit name of the variable visited last
    units_obj,        \* the Units object resolved for it
    total, mapped, mapping_details,
    \* ---- load_opb_mappings
    rdf_lines,        \* the lines of the association file
    line_no,          \* the number of lines read so far
    \* ---- download_file
    files,            \* the working directory: path -> content or Absent
    url, local_path,  \* the arguments of the running call
    response,         \* r, the response of requests.get
    requests,         \* the urls of the requests issued so far
    calls,            \* the number of calls of download_file made so far
    \* ---- main
    main_pc,          \* position of main while a function it called runs
    cellml_files,     \* the list of find_cellml_files
    idx,              \* the number of files the loop has taken
    valid,            \* what validate_model returned for the file
    stats,            \* the list of FileReports
    stats_json,       \* pmr_opb_mapping_stats.json: Absent or its content
    runs,             \* the runs of main started in this working directory
    loads,            \* log: the reference data each run has loaded
    outputs,          \* log: the documents written, with the run of each
    \* ---- generate_comprehensive_statistics
    loaded_stats,     \* stats, what json.load returned
    file_k, detail_k, \* the loop indices over file_stat and detail
    total_vars, mapped_vars, unmapped_vars,
    mapped_units, unmapped_units, opb_codes,
    category_counts

mapVars   == <<model, baseline_units, opb_map, pc, comp_i, var_j,
               unit_name, units_obj, total, mapped, mapping_details>>
mapLocals == <<model, baseline_units, comp_i, var_j,
               unit_name, units_obj, total, mapped, mapping_details>>
loadVars  == <<rdf_lines, line_no>>
fetchVars == <<files, url, local_path, response, requests, calls>>
runVars   == <<main_pc, cellml_files, idx, valid, stats, stats_json,
               runs, loads, outputs>>
reportVars == <<loaded_stats, file_k, detail_k,
                total_vars, mapped_vars, unmapped_vars,
                mapped_units, unmapped_units, opb_codes, category_counts>>
vars      == <<mapVars, loadVars, fetchVars, runVars, reportVars>>

----------------------------------------------------------------------------
(* Bounds *)

MaxUnits == 2          \* units declared in a model
MaxVars  == 2          \* variables of a model, over all its components

(* None of Python; an optional value is a record so that None, [] and a     *)
(* list of codes are three different values.                                *)
None      == [isNone |-> TRUE, value |-> <<>>]
Some(v)   == [isNone |-> FALSE, value |-> v]

----------------------------------------------------------------------------
(* The reference sources and their cache files in the working directory *)

BASELINE_UNITS_URL   ==
    "https://raw.githubusercontent.com/nickerso/cellml-to-fc/main/baseline_units.cellml"
RDF_OPB_URL          ==
    "https://raw.githubusercontent.com/nickerso/cellml-to-fc/main/rdf_unit_cellml.ttl"
BASELINE_UNITS_LOCAL == "baseline_units.cellml"
RDF_OPB_LOCAL        == "rdf_unit_cellml.ttl"

Paths == {BASELINE_UNITS_LOCAL, RDF_OPB_LOCAL}

(* What files holds for a path that does not exist *)
Absent == "<absent>"

----------------------------------------------------------------------------
(* libcellml objects *)

DimUndefined == "undefined"
LocalDims    == {"voltage", "pressure"}
Dims         == LocalDims \cup {DimUndefined}

LocalNames == {"volt", "mV"}     \* names a model may give its own units
BaseNames  == {"mV", "Pa"}       \* names the baseline file may declare
UnitNames  == LocalNames \cup BaseNames

UnitsObjects(names, dims) == [name : names, dim : dims]

(* The units a model may declare: volt, and mV with either dimension (a    *)
(* model may declare a name of the baseline file with a meaning of its     *)
(* own, and may declare a name twice).                                     *)
LocalUnits ==
    {u \in UnitsObjects(LocalNames, LocalDims) : u.name = "volt" => u.dim = "voltage"}

(* libcellml.Units.compatible(units1, units2): both reduce to base units   *)
(* and the two reductions have the same exponents.                          *)
compatible(units1, units2) ==
    /\ units1.dim # DimUndefined
    /\ units2.dim # DimUndefined
    /\ units1.dim = units2.dim

----------------------------------------------------------------------------
(* Python lists and dicts *)

SeqsUpTo(S, n) == UNION {[1..k -> S] : k \in 0..n}

Range(list) == {list[k] : k \in DOMAIN list}

(* x in list *)
InList(x, list) == \E k \in DOMAIN list : list[k] = x

(* list.index(x): the index of the first element equal to x *)
IndexOf(list, x) ==
    CHOOSE k \in DOMAIN list :
        /\ list[k] = x
        /\ \A l \in DOMAIN list : list[l] = x => k <= l

(* A dict that is iterated is a sequence of items [key, value] with        *)
(* distinct keys, in insertion order.                                      *)
Keys(dict) == {dict[k].key : k \in DOMAIN dict}

InDict(key, dict) == key \in Keys(dict)

DictItem(dict, key) == dict[CHOOSE k \in DOMAIN dict : dict[k].key = key].value

(* dict.get(key) of a dict that is only looked up: a function *)
DictGet(dict, key) == IF key \in DOMAIN dict THEN Some(dict[key]) ELSE None

----------------------------------------------------------------------------
(* map_variable_units_to_opb *)

(* model_unit_names = [model.units(i).name() for i in range(unitsCount)] *)
model_unit_names == [k \in DOMAIN model.units |-> model.units[k].name]

(* The if / elif / else that resolves a unit name to a Units object:       *)
(* None stands for the `continue` of the else branch.                      *)
ResolveUnitsBaselineFirst(name) ==
    IF InDict(name, baseline_units)
    THEN Some(DictItem(baseline_units, name))
    ELSE IF InList(name, model_unit_names)
    THEN Some(model.units[IndexOf(model_unit_names, name)])
    ELSE None

ResolveUnits(name) ==
    IF InList(name, model_unit_names)
    THEN Some(model.units[IndexOf(model_unit_names, name)])
    ELSE IF InDict(name, baseline_units)
    THEN Some(DictItem(baseline_units, name))
    ELSE None

(* for base_name, base_units in baseline_units.items(): if compatible:     *)
(* ... break.  The index of the item the loop breaks at, from item k on;   *)
(* 0 when the loop runs to its end.                                        *)
RECURSIVE LastCompatible(_, _)
LastCompatible(obj, k) ==
    IF k > Len(baseline_units) THEN 0
    ELSE LET later == LastCompatible(obj, k + 1)
         IN IF later # 0 THEN later
            ELSE IF compatible(obj, baseline_units[k].value) THEN k ELSE 0

RECURSIVE FirstCompatible(_, _)
FirstCompatible(obj, k) ==
    IF k > Len(baseline_units) THEN 0
    ELSE IF compatible(obj, baseline_units[k].value) THEN k
    ELSE FirstCompatible(obj, k + 1)

(* The dict appended to mapping_details *)
MappingRecordByUnitName(var, name, base_name) ==
    [variable  |-> var.name,
     unit      |-> name,
     mapped_to |-> base_name,
     opb_code  |-> DictGet(opb_map, name)]

MappingRecord(var, name, base_name) ==
    [variable  |-> var.name,
     unit      |-> name,
     mapped_to |-> base_name,
     opb_code  |-> DictGet(opb_map, base_name)]

(* total after the if / elif / else and `total += 1`; obj is None when the *)
(* else branch continues.                                                  *)
TotalAfterEveryVariable(obj) == total + 1

TotalAfter(obj) == IF obj.isNone THEN total ELSE total + 1

(* mapped after the scan; k = 0 when the scan found no compatible unit *)
MappedAfterEveryScan(k) == mapped + 1

MappedAfter(k) == IF k = 0 THEN mapped ELSE mapped + 1

(* mapping_details after the scan *)
DetailsAfterRecordingUnmapped(var, name, k) ==
    IF k = 0
    THEN Append(mapping_details,
                [variable |-> var.name, unit |-> name,
                 mapped_to |-> "None", opb_code |-> None])
    ELSE Append(mapping_details, MappingRecord(var, name, baseline_units[k].key))

DetailsAfter(var, name, k) ==
    IF k = 0
    THEN mapping_details
    ELSE Append(mapping_details, MappingRecord(var, name, baseline_units[k].key))

ComponentCount == Len(model.components)
VariableCount(c) == Len(model.components[c])

(* One pass of the inner loop body: the variable at (comp_i, var_j). *)
VisitVariable ==
    /\ pc = "loop"
    /\ comp_i <= ComponentCount
    /\ var_j <= VariableCount(comp_i)
    /\ LET var  == model.components[comp_i][var_j]
           name == var.units
           obj  == ResolveUnits(name)
           k    == IF obj.isNone THEN 0 ELSE FirstCompatible(obj.value, 1)
       IN  /\ unit_name' = Some(name)
           /\ units_obj' = IF obj.isNone THEN units_obj ELSE obj
           /\ total' = TotalAfter(obj)
           /\ mapped' = MappedAfter(k)
           /\ mapping_details' = DetailsAfter(var, name, k)
    /\ var_j' = var_j + 1
    /\ UNCHANGED <<model, baseline_units, opb_map, pc, comp_i>>
    /\ UNCHANGED <<loadVars, fetchVars>>
    /\ UNCHANGED <<runVars, reportVars>>

(* The inner loop of component comp_i is exhausted: next component. *)
NextComponent ==
    /\ pc = "loop"
    /\ comp_i <= ComponentCount
    /\ var_j > VariableCount(comp_i)
    /\ comp_i' = comp_i + 1
    /\ var_j' = 1
    /\ UNCHANGED <<model, baseline_units, opb_map, pc, unit_name, units_obj,
                   total, mapped, mapping_details>>
    /\ UNCHANGED <<loadVars, fetchVars>>
    /\ UNCHANGED <<runVars, reportVars>>

(* return mapped, total, mapping_details *)
ReturnMapping ==
    /\ pc = "loop"
    /\ comp_i > ComponentCount
    /\ pc' = "returned"
    /\ UNCHANGED <<model, baseline_units, opb_map, comp_i, var_j, unit_name,
                   units_obj, total, mapped, mapping_details>>
    /\ UNCHANGED <<loadVars, fetchVars>>
    /\ UNCHANGED <<runVars, reportVars>>

(* The arguments: every model, baseline dict and ontology table in bounds. *)
VarName(c, v) == <<"var", c, v>>

RECURSIVE SumLen(_)
SumLen(ss) == IF ss = <<>> THEN 0 ELSE Len(Head(ss)) + SumLen(Tail(ss))

(* The unit names of the variables of each component.  A component that   *)
(* declares no variable is kept in one model only, the model of a single  *)
(* empty component.                                                       *)
Components ==
    {cs \in SeqsUpTo(SeqsUpTo(UnitNames, MaxVars), MaxVars) :
        /\ SumLen(cs) <= MaxVars
        /\ \/ \A c \in DOMAIN cs : cs[c] # <<>>
           \/ cs = << <<>> >>}

NamedComponents(cs) ==
    [c \in DOMAIN cs |->
        [v \in DOMAIN cs[c] |-> [name |-> VarName(c, v), units |-> cs[c][v]]]]

Models ==
    {[units |-> us, components |-> NamedComponents(cs)] :
        us \in SeqsUpTo(LocalUnits, MaxUnits),
        cs \in Components}

BaselineDicts ==
    {d \in SeqsUpTo([key : BaseNames, value : UnitsObjects(BaseNames, Dims)],
                    Cardinality(BaseNames)) :
        /\ \A k \in DOMAIN d : d[k].value.name = d[k].key
        /\ \A k, l \in DOMAIN d : d[k].key = d[l].key => k = l}

OpbCodes == [mV |-> <<"OPB_00506">>, Pa |-> <<"OPB_00509", "OPB_01053">>]

(* The ontology tables: each has the codes of one baseline name and no     *)
(* entry for the other.                                                    *)
OpbMaps == {[n \in {key} |-> OpbCodes[n]] : key \in BaseNames}

IdleLoad  == /\ rdf_lines = <<>>
             /\ line_no = 0
IdleFetch == /\ files = [p \in Paths |-> Absent]
             /\ url = None
             /\ local_path = None
             /\ response = None
             /\ requests = <<>>
             /\ calls = 0

IdleRun ==
    /\ main_pc = "none"
    /\ cellml_files = <<>>
    /\ idx = 0
    /\ valid = FALSE
    /\ stats = <<>>
    /\ stats_json = Absent
    /\ runs = 0
    /\ loads = <<>>
    /\ outputs = <<>>

IdleReport ==
    /\ loaded_stats = <<>>
    /\ file_k = 0
    /\ detail_k = 0
    /\ total_vars = 0
    /\ mapped_vars = 0
    /\ unmapped_vars = 0
    /\ mapped_units = <<>>
    /\ unmapped_units = <<>>
    /\ opb_codes = <<>>
    /\ category_counts = <<>>

InitMap ==
    /\ model \in Models
    /\ baseline_units \in BaselineDicts
    /\ opb_map \in OpbMaps
    /\ pc = "loop"
    /\ comp_i = 1
    /\ var_j = 1
    /\ unit_name = None
    /\ units_obj = None
    /\ total = 0
    /\ mapped = 0
    /\ mapping_details = <<>>
    /\ IdleLoad
    /\ IdleFetch
    /\ IdleRun
    /\ IdleReport

NextMap == VisitVariable \/ NextComponent \/ ReturnMapping

Spec == InitMap /\ [][NextMap]_vars

----------------------------------------------------------------------------
(* Properties of map_variable_units_to_opb *)

(* The loop is about to visit the variable at (comp_i, var_j). *)
AtVariable ==
    /\ pc = "loop"
    /\ comp_i <= ComponentCount
    /\ var_j <= VariableCount(comp_i)

CurrentVariable == model.components[comp_i][var_j]

(* The indices of the units a model declares under a name *)
LocalUnitsNamed(name) == {k \in DOMAIN model.units : model.units[k].name = name}

IsLocalName(name)    == LocalUnitsNamed(name) # {}
IsBaselineName(name) == \E k \in DOMAIN baseline_units : baseline_units[k].key = name

(* The Units object a known unit name stands for *)
DeclaredUnits(name) ==
    IF IsLocalName(name)
    THEN model.units[CHOOSE k \in LocalUnitsNamed(name) :
                        \A l \in LocalUnitsNamed(name) : k <= l]
    ELSE baseline_units[CHOOSE k \in DOMAIN baseline_units :
                            baseline_units[k].key = name].value

CompatibleItems(obj) ==
    {k \in DOMAIN baseline_units : compatible(obj, baseline_units[k].value)}

LastRecord(details) == details[Len(details)]

(* C1: first match.  Whenever a record is appended, its mapped_to is the   *)
(* key of the earliest item of baseline_units, in the dict's order, that   *)
(* is compatible with the Units object resolved for the variable: no item  *)
(* before it is compatible, so a later compatible item is never chosen.    *)
C1_FirstMatch ==
    [][Len(mapping_details') = Len(mapping_details) + 1 =>
          \E k \in CompatibleItems(units_obj'.value) :
              /\ LastRecord(mapping_details').mapped_to = baseline_units[k].key
              /\ \A l \in CompatibleItems(units_obj'.value) : k <= l]_vars

(* Two baseline units are compatible with the resolved object, and the     *)
(* record it produced names the first of them.                             *)
C1_Witness ==
    /\ ~units_obj.isNone
    /\ Len(baseline_units) = 2
    /\ CompatibleItems(units_obj.value) = {1, 2}
    /\ mapping_details # <<>>
    /\ LastRecord(mapping_details).mapped_to = baseline_units[1].key

(* C2: a variable whose unit name is known (local or baseline) but whose   *)
(* Units object is compatible with no baseline unit adds one to total,     *)
(* leaves mapped as it was and appends no record.                          *)
C2_UnmatchedCountedNotRecorded ==
    [][(/\ AtVariable
        /\ IsLocalName(CurrentVariable.units) \/ IsBaselineName(CurrentVariable.units)
        /\ CompatibleItems(DeclaredUnits(CurrentVariable.units)) = {})
       => /\ total' = total + 1
          /\ mapped' = mapped
          /\ mapping_details' = mapping_details]_vars

(* A known unit with no compatible baseline unit has been visited: it is   *)
(* counted in total and nothing is recorded.                               *)
C2_Witness ==
    /\ pc = "returned"
    /\ ~units_obj.isNone
    /\ baseline_units # <<>>
    /\ CompatibleItems(units_obj.value) = {}
    /\ total = 1
    /\ mapped = 0
    /\ mapping_details = <<>>

(* The positions of the variables visited so far *)
Visited ==
    UNION {{<<c, v>> : v \in 1..(IF c < comp_i THEN VariableCount(c) ELSE var_j - 1)} :
              c \in {c \in DOMAIN model.components : c <= comp_i}}

VariableAt(p) == model.components[p[1]][p[2]]

IsKnown(p) == IsLocalName(VariableAt(p).units) \/ IsBaselineName(VariableAt(p).units)

(* The visited variables of a known unit that no baseline unit matches *)
VisitedUnmatched ==
    {p \in Visited :
        /\ IsKnown(p)
        /\ CompatibleItems(DeclaredUnits(VariableAt(p).units)) = {}}

RecordsOf(p) ==
    {k \in DOMAIN mapping_details :
        mapping_details[k].variable = VariableAt(p).name}

(* C3 as stated: every visited variable whose unit is known and            *)
(* incompatible with all baseline units has a record whose opb_code is     *)
(* None or the empty list.                                                 *)
C3_UnmatchedHasEmptyRecord ==
    \A p \in VisitedUnmatched :
        \E k \in RecordsOf(p) :
            \/ mapping_details[k].opb_code.isNone
            \/ mapping_details[k].opb_code.value = <<>>

(* C3, amended: a visited variable whose unit is known and incompatible    *)
(* with all baseline units has no record at all, and it is counted in      *)
(* total: total exceeds the number of records by the number of such        *)
(* variables.                                                              *)
C3_UnmatchedHasNoRecord ==
    /\ \A p \in VisitedUnmatched : RecordsOf(p) = {}
    /\ total = Len(mapping_details) + Cardinality(VisitedUnmatched)

C3_Witness ==
    /\ pc = "returned"
    /\ Cardinality(VisitedUnmatched) = 1
    /\ Cardinality(Visited) = 2
    /\ total = 2
    /\ Len(mapping_details) = 1

(* C4 as stated: mapped is the number of records whose opb_code is not     *)
(* None.                                                                   *)
C4_MappedCountsCodedRecords ==
    mapped = Cardinality({k \in DOMAIN mapping_details :
                             ~mapping_details[k].opb_code.isNone})

(* C5: a variable whose unit name is neither a local unit's name nor a key *)
(* of baseline_units leaves total, mapped and mapping_details as they      *)
(* were, and the loop goes on to the next variable of the component.       *)
C5_UnknownUnitChangesNothing ==
    [][(/\ AtVariable
        /\ ~IsLocalName(CurrentVariable.units)
        /\ ~IsBaselineName(CurrentVariable.units))
       => /\ UNCHANGED <<total, mapped, mapping_details>>
          /\ pc' = "loop"
          /\ comp_i' = comp_i
          /\ var_j' = var_j + 1]_vars

(* An unknown unit name was visited after a mapped variable: the counts    *)
(* are those of the first variable alone.                                  *)
C5_Witness ==
    /\ Cardinality(Visited) = 2
    /\ ~unit_name.isNone
    /\ ~IsLocalName(unit_name.value)
    /\ ~IsBaselineName(unit_name.value)
    /\ total = 1
    /\ mapped = 1
    /\ Len(mapping_details) = 1

(* C6: a unit name that is both a local unit's name and a baseline key     *)
(* resolves to the local Units object, the first one of that name; the     *)
(* baseline object is used only when no local unit has the name.           *)
C6_LocalUnitsFirst ==
    [][(AtVariable /\ IsKnown(<<comp_i, var_j>>))
       => units_obj' =
             Some(IF IsLocalName(CurrentVariable.units)
                  THEN model.units[CHOOSE k \in LocalUnitsNamed(CurrentVariable.units) :
                                      \A l \in LocalUnitsNamed(CurrentVariable.units) : k <= l]
                  ELSE DictItem(baseline_units, CurrentVariable.units))]_vars

(* The name visited is declared twice locally and once in the baseline,    *)
(* each time with another dimension; the object used is the first local    *)
(* one, and the record follows it.                                         *)
C6_Witness ==
    /\ ~unit_name.isNone
    /\ Cardinality(LocalUnitsNamed(unit_name.value)) = 2
    /\ model.units[1].dim # model.units[2].dim
    /\ IsBaselineName(unit_name.value)
    /\ DictItem(baseline_units, unit_name.value).dim = DimUndefined
    /\ units_obj = Some(model.units[1])
    /\ mapping_details # <<>>
    /\ LastRecord(mapping_details).unit = unit_name.value
    /\ LastRecord(mapping_details).mapped_to # unit_name.value

(* C7: when some baseline unit is compatible with the variable's Units     *)
(* object, exactly one record is appended and mapped grows by one; the     *)
(* record carries the variable, its unit name, the key of a compatible     *)
(* baseline unit as mapped_to and, as opb_code, the list opb_map holds for *)
(* that key, or None when opb_map has no such key.                         *)
C7_MatchEmitsOneRecord ==
    [][(/\ AtVariable
        /\ IsKnown(<<comp_i, var_j>>)
        /\ CompatibleItems(DeclaredUnits(CurrentVariable.units)) # {})
       => /\ mapped' = mapped + 1
          /\ Len(mapping_details') = Len(mapping_details) + 1
          /\ SubSeq(mapping_details', 1, Len(mapping_details)) = mapping_details
          /\ LET r == LastRecord(mapping_details')
             IN  /\ r.variable = CurrentVariable.name
                 /\ r.unit = CurrentVariable.units
                 /\ \E k \in CompatibleItems(DeclaredUnits(CurrentVariable.units)) :
                        r.mapped_to = baseline_units[k].key
                 /\ r.opb_code = IF r.mapped_to \in DOMAIN opb_map
                                 THEN Some(opb_map[r.mapped_to])
                                 ELSE None]_vars

(* Two records: one whose baseline name has codes in opb_map, one whose    *)
(* baseline name has none; the unit names differ from the baseline names.  *)
C7_Witness ==
    /\ Len(mapping_details) = 2
    /\ mapped = 2
    /\ \E k, l \in DOMAIN mapping_details :
          /\ mapping_details[k].opb_code = Some(OpbCodes[mapping_details[k].mapped_to])
          /\ mapping_details[k].unit # mapping_details[k].mapped_to
          /\ mapping_details[l].opb_code = None

----------------------------------------------------------------------------
(* Text.  A str is a sequence of atoms: a blank, a punctuation mark, one   *)
(* of the markers the code searches for, or a run of other characters.     *)
(* The markers never overlap one another, so searching, splitting and      *)
(* replacing them in the str is the same operation on the atoms.           *)

Blank == " "

(* str.strip() *)
RECURSIVE LStrip(_)
LStrip(str) ==
    IF str # <<>> /\ Head(str) = Blank THEN LStrip(Tail(str)) ELSE str

RECURSIVE RStrip(_)
RStrip(str) ==
    IF str # <<>> /\ str[Len(str)] = Blank
    THEN RStrip(SubSeq(str, 1, Len(str) - 1))
    ELSE str

Strip(str) == RStrip(LStrip(str))

(* str.startswith(atom) *)
StartsWith(str, atom) == str # <<>> /\ Head(str) = atom

(* atom in str *)
Contains(str, atom) == \E k \in DOMAIN str : str[k] = atom

(* str.split(sep): the pieces between the occurrences of sep *)
RECURSIVE SplitOn(_, _)
SplitOn(str, sep) ==
    IF ~Contains(str, sep) THEN <<str>>
    ELSE LET k == CHOOSE n \in DOMAIN str :
                     str[n] = sep /\ \A m \in 1..(n - 1) : str[m] # sep
         IN  <<SubSeq(str, 1, k - 1)>> \o SplitOn(SubSeq(str, k + 1, Len(str)), sep)

(* str.split()[0] of a stripped, non-empty str: up to the first blank *)
FirstWord(str) == Head(SplitOn(str, Blank))

(* str.replace(old, new) for single atoms; new = <<>> deletes *)
RECURSIVE Replace(_, _, _)
Replace(str, old, new) ==
    IF str = <<>> THEN <<>>
    ELSE (IF Head(str) = old THEN new ELSE <<Head(str)>>)
         \o Replace(Tail(str), old, new)

----------------------------------------------------------------------------
(* load_opb_mappings *)

(* One pass of `for code in opb_part.split(",")`: the code a piece yields. *)
CleanCode(piece) ==
    Replace(Replace(Replace(Strip(piece), "opb:OPB_", <<"OPB_">>), ".", <<>>), ";", <<>>)

(* opb_codes: the codes of the pieces that start with OPB_, in order *)
RECURSIVE CollectCodes(_)
CollectCodes(pieces) ==
    IF pieces = <<>> THEN <<>>
    ELSE (IF StartsWith(CleanCode(Head(pieces)), "OPB_")
          THEN <<CleanCode(Head(pieces))>>
          ELSE <<>>)
         \o CollectCodes(Tail(pieces))

(* opb_part = line.split("is_unit_of:")[1], then the loop over its pieces *)
ParseCodes(line) == CollectCodes(SplitOn(SplitOn(line, "is_unit_of:")[2], ","))

(* The conditions under which a stripped line reaches the assignment *)
QualifiesWithoutCode(line) ==
    /\ line # <<>>
    /\ ~StartsWith(line, "@prefix")
    /\ Contains(line, "is_unit_of:")
    /\ StartsWith(FirstWord(line), "ex:")

Qualifies(line) ==
    /\ line # <<>>
    /\ ~StartsWith(line, "@prefix")
    /\ Contains(line, "is_unit_of:")
    /\ Contains(line, "opb:OPB_")
    /\ StartsWith(FirstWord(line), "ex:")

(* unit_name = parts[0][3:] *)
SubjectName(line) == Tail(FirstWord(line))

(* opb_map[unit_name] = opb_codes *)
StoreAccumulating(dict, key, value) ==
    [n \in DOMAIN dict \cup {key} |->
        IF n = key
        THEN (IF key \in DOMAIN dict THEN dict[key] ELSE <<>>) \o value
        ELSE dict[n]]

Store(dict, key, value) ==
    [n \in DOMAIN dict \cup {key} |-> IF n = key THEN value ELSE dict[n]]

(* One pass of `for line in f` *)
ReadLine ==
    /\ pc = "lines"
    /\ line_no < Len(rdf_lines)
    /\ LET line == Strip(rdf_lines[line_no + 1])
       IN  opb_map' = IF Qualifies(line)
                      THEN Store(opb_map, SubjectName(line), ParseCodes(line))
                      ELSE opb_map
    /\ line_no' = line_no + 1
    /\ UNCHANGED <<pc, rdf_lines, mapLocals, fetchVars>>
    /\ UNCHANGED <<runVars, reportVars>>

(* return opb_map *)
ReturnTable ==
    /\ pc = "lines"
    /\ line_no = Len(rdf_lines)
    /\ pc' = "loaded"
    /\ UNCHANGED <<opb_map, loadVars, mapLocals, fetchVars>>
    /\ UNCHANGED <<runVars, reportVars>>

(* The lines of the association file *)
MaxLines == 2

RECURSIVE Join(_, _)
Join(strs, sep) ==
    IF strs = <<>> THEN <<>>
    ELSE IF Len(strs) = 1 THEN Head(strs)
    ELSE Head(strs) \o sep \o Join(Tail(strs), sep)

RdfUnits == {"um", "mV"}

CodeA == <<"opb:OPB_", "00269">>
CodeB == <<"opb:OPB_", "01064">>

RdfObjects == {<<CodeA>>, <<CodeB>>, <<CodeA, CodeB>>}

RdfEnds == {<<Blank, ".">>, <<".">>, <<Blank, ";">>}

(* ex:U is_unit_of: opb:C1, opb:C2 END *)
Triple(unit, objects, end) ==
    <<"ex:", unit, Blank, "is_unit_of:", Blank>> \o Join(objects, <<",", Blank>>) \o end

Triples == {Triple(u, os, e) : u \in RdfUnits, os \in RdfObjects, e \in RdfEnds}

OtherLines ==
    {<<>>,
     <<Blank>>,
     <<"@prefix", Blank, "ex:", Blank, "is_unit_of:", Blank, "opb:OPB_", Blank, ".">>,
     <<Blank, Blank>> \o Triple("um", <<CodeB>>, <<Blank, ".">>) \o <<Blank>>,
     <<"um", Blank, "is_unit_of:", Blank>> \o CodeA \o <<Blank, ".">>,
     <<"ex:", "um", Blank, "rdfs:label", Blank>> \o CodeA \o <<Blank, ".">>,
     <<"ex:", "um", Blank, "is_unit_of:", Blank, "opb:", "Length", Blank, ".">>,
     <<"ex:", "mV", Blank, "is_unit_of:", Blank, "Length", ",", Blank>> \o CodeA \o <<".">>}

RdfLines == Triples \cup OtherLines

IdleMap ==
    /\ model = [units |-> <<>>, components |-> <<>>]
    /\ baseline_units = <<>>
    /\ comp_i = 1
    /\ var_j = 1
    /\ unit_name = None
    /\ units_obj = None
    /\ total = 0
    /\ mapped = 0
    /\ mapping_details = <<>>

InitLoad ==
    /\ rdf_lines \in SeqsUpTo(RdfLines, MaxLines)
    /\ line_no = 0
    /\ opb_map = <<>>
    /\ pc = "lines"
    /\ IdleMap
    /\ IdleFetch
    /\ IdleRun
    /\ IdleReport

NextLoad == ReadLine \/ ReturnTable

SpecLoad == InitLoad /\ [][NextLoad]_vars

(* Properties of load_opb_mappings *)

(* The code as it is written in the file, without the opb: prefix *)
BareCode(object) == <<"OPB_">> \o Tail(object)

BareCodes(objects) == [k \in DOMAIN objects |-> BareCode(objects[k])]

(* C8 as stated: once a line `ex:U is_unit_of: opb:C1, opb:C2 .` has been  *)
(* read, codes separated by commas and the last one followed by a blank    *)
(* and a period, the table maps U to the list of the bare codes: no        *)
(* period, comma, semicolon or blank is left in any of them.               *)
C8_BareCodes ==
    \A u \in RdfUnits, os \in RdfObjects :
        (line_no > 0 /\ rdf_lines[line_no] = Triple(u, os, <<Blank, ".">>))
        => /\ <<u>> \in DOMAIN opb_map
           /\ opb_map[<<u>>] = BareCodes(os)

(* The lines read so far that qualify and declare a unit name *)
QualifyingLines(name) ==
    {k \in 1..line_no :
        /\ Qualifies(Strip(rdf_lines[k]))
        /\ SubjectName(Strip(rdf_lines[k])) = name}

LastOf(S) == CHOOSE k \in S : \A l \in S : l <= k

(* C9: the table holds a name exactly when a line read so far qualifies    *)
(* and declares it, and then it holds the codes of the last such line      *)
(* alone, whatever the earlier lines of that name listed.                  *)
C9_LastLineWins ==
    \A u \in RdfUnits :
        IF QualifyingLines(<<u>>) = {}
        THEN <<u>> \notin DOMAIN opb_map
        ELSE /\ <<u>> \in DOMAIN opb_map
             /\ opb_map[<<u>>] =
                   ParseCodes(Strip(rdf_lines[LastOf(QualifyingLines(<<u>>))]))

(* Two lines declare the same name with different codes; the table has the *)
(* codes of the second and none of the first.                              *)
C9_Witness ==
    /\ pc = "loaded"
    /\ \E u \in RdfUnits :
          /\ QualifyingLines(<<u>>) = {1, 2}
          /\ ParseCodes(Strip(rdf_lines[1])) = <<BareCode(CodeA)>>
          /\ opb_map[<<u>>] = <<BareCode(CodeB)>>

----------------------------------------------------------------------------
(* download_file(url, local_path), one step per statement *)

MaxCalls == 3          \* calls of download_file

(* The two calls: parse_baseline_units and load_opb_mappings *)
CallSites ==
    {[url |-> BASELINE_UNITS_URL, local_path |-> BASELINE_UNITS_LOCAL],
     [url |-> RDF_OPB_URL,        local_path |-> RDF_OPB_LOCAL]}

(* What the server may answer, and what it may send as r.text *)
Statuses == {200, 404}
Texts    == {"v1", "v2"}

(* os.path.exists(local_path) *)
ExistsNever(path) == FALSE

Exists(path) == files[path] # Absent

(* A caller calls download_file; an earlier call has returned or raised. *)
CallDownload ==
    /\ pc \in {"idle", "raised"}
    /\ calls < MaxCalls
    /\ \E site \in CallSites :
          /\ url' = Some(site.url)
          /\ local_path' = Some(site.local_path)
    /\ calls' = calls + 1
    /\ response' = None
    /\ pc' = "exists"
    /\ UNCHANGED <<files, requests, opb_map, mapLocals, loadVars>>
    /\ UNCHANGED <<runVars, reportVars>>

(* if not os.path.exists(local_path): ... else the function returns *)
TestExists ==
    /\ pc = "exists"
    /\ pc' = IF Exists(local_path.value) THEN "idle" ELSE "get"
    /\ UNCHANGED <<fetchVars, opb_map, mapLocals, loadVars>>
    /\ UNCHANGED <<runVars, reportVars>>

(* r = requests.get(url): an answer, or an exception of the transport *)
Get ==
    /\ pc = "get"
    /\ requests' = Append(requests, url.value)
    /\ \/ /\ \E st \in Statuses, tx \in Texts :
                response' = Some([status_code |-> st, text |-> tx])
          /\ pc' = "status"
       \/ /\ response' = None
          /\ pc' = "raised"
    /\ UNCHANGED <<files, url, local_path, calls, opb_map, mapLocals, loadVars>>
    /\ UNCHANGED <<runVars, reportVars>>

(* r.raise_for_status() *)
RaiseForStatusAfterOpen ==
    /\ pc = "status"
    /\ pc' = IF response.value.status_code >= 400 THEN "raised" ELSE "write"
    /\ files' = [files EXCEPT ![local_path.value] = ""]
    /\ UNCHANGED <<url, local_path, response, requests, calls,
                   opb_map, mapLocals, loadVars>>
    /\ UNCHANGED <<runVars, reportVars>>

RaiseForStatus ==
    /\ pc = "status"
    /\ pc' = IF response.value.status_code >= 400 THEN "raised" ELSE "open"
    /\ UNCHANGED <<fetchVars, opb_map, mapLocals, loadVars>>
    /\ UNCHANGED <<runVars, reportVars>>

(* with open(local_path, "w") as f: the file is created, or truncated *)
OpenForWriting ==
    /\ pc = "open"
    /\ files' = [files EXCEPT ![local_path.value] = ""]
    /\ pc' = "write"
    /\ UNCHANGED <<url, local_path, response, requests, calls,
                   opb_map, mapLocals, loadVars>>
    /\ UNCHANGED <<runVars, reportVars>>

(* f.write(r.text), and the file is closed *)
WriteText ==
    /\ pc = "write"
    /\ files' = [files EXCEPT ![local_path.value] = response.value.text]
    /\ pc' = "idle"
    /\ UNCHANGED <<url, local_path, response, requests, calls,
                   opb_map, mapLocals, loadVars>>
    /\ UNCHANGED <<runVars, reportVars>>

(* The working directory may hold cache files of an earlier run. *)
InitFetch ==
    /\ files \in [Paths -> {Absent} \cup Texts]
    /\ url = None
    /\ local_path = None
    /\ response = None
    /\ requests = <<>>
    /\ calls = 0
    /\ pc = "idle"
    /\ opb_map = <<>>
    /\ IdleMap
    /\ IdleLoad
    /\ IdleRun
    /\ IdleReport

NextFetch ==
    \/ CallDownload
    \/ TestExists
    \/ Get
    \/ RaiseForStatus
    \/ OpenForWriting
    \/ WriteText

SpecFetch == InitFetch /\ [][NextFetch]_vars

(* Properties of download_file *)

(* The cache file of a reference source *)
CacheOf(u) == IF u = BASELINE_UNITS_URL THEN BASELINE_UNITS_LOCAL ELSE RDF_OPB_LOCAL

(* C10: a request for a reference source is issued only in a state in      *)
(* which the cache file of that source does not exist.                     *)
C10_NoFetchWhenCached ==
    [][Len(requests') > Len(requests)
       => files[CacheOf(requests'[Len(requests')])] = Absent]_vars

(* The baseline units were fetched and written by a first call; a second   *)
(* call for them has returned and no second request was issued.            *)
C10_Witness ==
    /\ pc = "idle"
    /\ calls = 2
    /\ url = Some(BASELINE_UNITS_URL)
    /\ requests = <<BASELINE_UNITS_URL>>
    /\ files[BASELINE_UNITS_LOCAL] \in Texts

----------------------------------------------------------------------------
(* main, one step per statement that calls or returns; the functions it    *)
(* calls run by the actions above.  pc is the position of the function     *)
(* that runs ("main" while main itself does), main_pc the position main    *)
(* will resume at.  In a run every name is a str read from a file: the     *)
(* sequence of its atoms.                                                   *)

MaxFiles == 2          \* .cellml files under the workspace directory
MaxRuns  == 2          \* runs of the program in one working directory

NoModel == [units |-> <<>>, components |-> <<>>]

(* What libcellml's non-strict parser finds in the text of the baseline    *)
(* file: the units elements of a CellML document, none in any other text.  *)
(* "v1" is the CellML document of the baseline units, "v2" the Turtle      *)
(* document of the associations; a server may answer either for any url.   *)
ParsedUnits(text) ==
    IF text = "v1"
    THEN <<[name |-> <<"mV">>, dim |-> "voltage"],
           [name |-> <<"Pa">>, dim |-> "pressure"]>>
    ELSE <<>>

(* The lines `for line in f` yields for a text *)
LinesOf(text) ==
    IF text = "v2"
    THEN <<<<"@prefix", Blank, "ex:", Blank, "<http://example.org/>", Blank, ".">>,
           Triple("mV", <<CodeA>>, <<Blank, ".">>)>>
    ELSE IF text = "v1"
    THEN <<<<"<model>">>, <<>>, <<"</model>">>>>
    ELSE <<>>

(* dict[key] = value of a dict that is iterated: a new key goes last, a    *)
(* key the dict has keeps its place.                                       *)
SetItem(dict, key, value) ==
    IF InDict(key, dict)
    THEN [k \in DOMAIN dict |->
             IF dict[k].key = key THEN [key |-> key, value |-> value] ELSE dict[k]]
    ELSE Append(dict, [key |-> key, value |-> value])

(* for i in range(baseline_model.unitsCount()): baseline_units[name] = units *)
RECURSIVE BaselineFrom(_, _)
BaselineFrom(units, dict) ==
    IF units = <<>> THEN dict
    ELSE BaselineFrom(Tail(units), SetItem(dict, Head(units).name, Head(units)))

(* find_cellml_files: os.walk yields the files of the workspace in an      *)
(* order the file system chooses; the files themselves do not change.      *)
WalkOrders(found) ==
    {order \in [DOMAIN found -> Range(found)] :
        \A f \in Range(found) : \E k \in DOMAIN order : order[k] = f}

(* A new process: no variable of an earlier run is left *)
FreshProcess ==
    /\ model' = NoModel
    /\ baseline_units' = <<>>
    /\ opb_map' = <<>>
    /\ comp_i' = 1
    /\ var_j' = 1
    /\ unit_name' = None
    /\ units_obj' = None
    /\ total' = 0
    /\ mapped' = 0
    /\ mapping_details' = <<>>
    /\ rdf_lines' = <<>>
    /\ line_no' = 0
    /\ idx' = 0
    /\ valid' = FALSE
    /\ stats' = <<>>

(* python add_milestone3.py: main scans the workspace and calls            *)
(* parse_baseline_units, which calls download_file.                        *)
CallParseBaseline ==
    /\ main_pc \in {"start", "done", "aborted"}
    /\ runs < MaxRuns
    /\ runs' = runs + 1
    /\ cellml_files' \in WalkOrders(cellml_files)
    /\ FreshProcess
    /\ url' = Some(BASELINE_UNITS_URL)
    /\ local_path' = Some(BASELINE_UNITS_LOCAL)
    /\ response' = None
    /\ calls' = calls + 1
    /\ pc' = "exists"
    /\ main_pc' = "baseline"
    /\ UNCHANGED <<files, requests, stats_json, loads, outputs>>
    /\ UNCHANGED reportVars

(* download_file has returned: the file is read and parsed, and the dict   *)
(* of its units is returned to main.                                       *)
ParseBaseline ==
    /\ main_pc = "baseline"
    /\ pc = "idle"
    /\ baseline_units' = BaselineFrom(ParsedUnits(files[BASELINE_UNITS_LOCAL]), <<>>)
    /\ pc' = "main"
    /\ main_pc' = "opb"
    /\ UNCHANGED <<model, opb_map, comp_i, var_j, unit_name, units_obj,
                   total, mapped, mapping_details>>
    /\ UNCHANGED <<loadVars, fetchVars, reportVars>>
    /\ UNCHANGED <<cellml_files, idx, valid, stats, stats_json, runs, loads, outputs>>

(* main calls load_opb_mappings, which calls download_file. *)
CallLoadOpb ==
    /\ main_pc = "opb"
    /\ pc = "main"
    /\ url' = Some(RDF_OPB_URL)
    /\ local_path' = Some(RDF_OPB_LOCAL)
    /\ response' = None
    /\ calls' = calls + 1
    /\ pc' = "exists"
    /\ UNCHANGED <<files, requests, opb_map, mapLocals, loadVars>>
    /\ UNCHANGED <<runVars, reportVars>>

(* download_file has returned: opb_map = {} and the file is opened. *)
OpenRdf ==
    /\ main_pc = "opb"
    /\ pc = "idle"
    /\ opb_map' = <<>>
    /\ rdf_lines' = LinesOf(files[RDF_OPB_LOCAL])
    /\ line_no' = 0
    /\ pc' = "lines"
    /\ UNCHANGED <<mapLocals, fetchVars, runVars, reportVars>>

(* load_opb_mappings has returned: stats = [] and the loop begins. *)
StartLoop ==
    /\ main_pc = "opb"
    /\ pc = "loaded"
    /\ stats' = <<>>
    /\ idx' = 0
    /\ loads' = Append(loads, [run |-> runs,
                               baseline_units |-> baseline_units,
                               opb_map |-> opb_map])
    /\ pc' = "main"
    /\ main_pc' = "files"
    /\ UNCHANGED <<opb_map, mapLocals, loadVars, fetchVars, reportVars>>
    /\ UNCHANGED <<cellml_files, valid, stats_json, runs, outputs>>

(* parser.parseModel(content) of one file of the workspace *)
ParseModel(content) ==
    IF content.kind = "model" THEN Some(content.model) ELSE None

(* not model *)
NeverFalsy(parsed) == FALSE

IsFalsy(parsed) == parsed.isNone

(* The dict main appends for a file *)
FileReport(path, n_total, n_mapped, details) ==
    [file |-> path,
     variables_total |-> n_total,
     variables_mapped |-> n_mapped,
     mapping_details |-> details]

(* stats.append(report) *)
PrependReport(list, report) == <<report>> \o list

AppendReport(list, report) == Append(list, report)

(* One pass of the loop up to `if not model: continue`: the file is read   *)
(* and parsed.  A file that is not UTF-8 text makes f.read() raise.        *)
ReadFile ==
    /\ main_pc = "files"
    /\ pc = "main"
    /\ idx < Len(cellml_files)
    /\ idx' = idx + 1
    /\ LET content == cellml_files[idx + 1]
           parsed == ParseModel(content)
       IN  IF content.kind = "undecodable"
           THEN /\ pc' = "raised"
                /\ UNCHANGED <<model, main_pc>>
           ELSE /\ model' = IF parsed.isNone THEN NoModel ELSE parsed.value
                /\ main_pc' = IF IsFalsy(parsed) THEN "files" ELSE "parsed"
                /\ pc' = pc
    /\ UNCHANGED <<baseline_units, opb_map, comp_i, var_j, unit_name, units_obj,
                   total, mapped, mapping_details>>
    /\ UNCHANGED <<loadVars, fetchVars, reportVars>>
    /\ UNCHANGED <<cellml_files, valid, stats, stats_json, runs, loads, outputs>>

(* resolve_imports(model, base_path); the Importer it returns is dropped *)
ResolveImports ==
    /\ main_pc = "parsed"
    /\ pc = "main"
    /\ main_pc' = "resolved"
    /\ UNCHANGED <<mapVars, loadVars, fetchVars, reportVars>>
    /\ UNCHANGED <<cellml_files, idx, valid, stats, stats_json, runs, loads, outputs>>

(* valid = validate_model(model) *)
ValidateModelSkippingInvalid ==
    /\ main_pc = "resolved"
    /\ pc = "main"
    /\ valid' = cellml_files[idx].valid
    /\ main_pc' = IF cellml_files[idx].valid THEN "validated" ELSE "files"
    /\ UNCHANGED <<mapVars, loadVars, fetchVars, reportVars>>
    /\ UNCHANGED <<cellml_files, idx, stats, stats_json, runs, loads, outputs>>

ValidateModel ==
    /\ main_pc = "resolved"
    /\ pc = "main"
    /\ valid' = cellml_files[idx].valid
    /\ main_pc' = "validated"
    /\ UNCHANGED <<mapVars, loadVars, fetchVars, reportVars>>
    /\ UNCHANGED <<cellml_files, idx, stats, stats_json, runs, loads, outputs>>

(* mapped = 0, total = 0, mapping_details = [] *)
CarriedTotal == total

InitialTotal == 0

CarriedDetails == mapping_details

InitialDetails == <<>>

(* main calls map_variable_units_to_opb(model, baseline_units, opb_map) *)
CallMapperClearingTable ==
    /\ main_pc = "validated"
    /\ pc = "main"
    /\ mapped' = 0
    /\ total' = InitialTotal
    /\ mapping_details' = InitialDetails
    /\ comp_i' = 1
    /\ var_j' = 1
    /\ unit_name' = None
    /\ units_obj' = None
    /\ pc' = "loop"
    /\ main_pc' = "mapping"
    /\ opb_map' = <<>>
    /\ UNCHANGED <<model, baseline_units>>
    /\ UNCHANGED <<loadVars, fetchVars, reportVars>>
    /\ UNCHANGED <<cellml_files, idx, valid, stats, stats_json, runs, loads, outputs>>

CallMapper ==
    /\ main_pc = "validated"
    /\ pc = "main"
    /\ mapped' = 0
    /\ total' = InitialTotal
    /\ mapping_details' = InitialDetails
    /\ comp_i' = 1
    /\ var_j' = 1
    /\ unit_name' = None
    /\ units_obj' = None
    /\ pc' = "loop"
    /\ main_pc' = "mapping"
    /\ UNCHANGED <<model, baseline_units, opb_map>>
    /\ UNCHANGED <<loadVars, fetchVars, reportVars>>
    /\ UNCHANGED <<cellml_files, idx, valid, stats, stats_json, runs, loads, outputs>>

(* map_variable_units_to_opb has returned: the report of the file *)
AppendStats ==
    /\ main_pc = "mapping"
    /\ pc = "returned"
    /\ stats' = AppendReport(stats, FileReport(cellml_files[idx].path,
                                               total, mapped, mapping_details))
    /\ pc' = "main"
    /\ main_pc' = "files"
    /\ UNCHANGED <<opb_map, mapLocals, loadVars, fetchVars, reportVars>>
    /\ UNCHANGED <<cellml_files, idx, valid, stats_json, runs, loads, outputs>>

(* The loop is over: json.dump(stats, f) into pmr_opb_mapping_stats.json *)
SaveStats ==
    /\ main_pc = "files"
    /\ pc = "main"
    /\ idx = Len(cellml_files)
    /\ stats_json' = stats
    /\ outputs' = Append(outputs, [run |-> runs, doc |-> stats])
    /\ main_pc' = "done"
    /\ UNCHANGED <<mapVars, loadVars, fetchVars, reportVars>>
    /\ UNCHANGED <<cellml_files, idx, valid, stats, runs, loads>>

(* No statement of main catches an exception: one that a call raises       *)
(* leaves main, and the process ends.                                      *)
Swallow ==
    /\ pc = "raised"
    /\ main_pc \in {"baseline", "opb", "files"}
    /\ pc' = "main"
    /\ main_pc' = "files"
    /\ UNCHANGED <<opb_map, mapLocals, loadVars, fetchVars, reportVars>>
    /\ UNCHANGED <<cellml_files, idx, valid, stats, stats_json, runs, loads, outputs>>

Propagate ==
    /\ pc = "raised"
    /\ main_pc \in {"baseline", "opb", "files"}
    /\ main_pc' = "aborted"
    /\ UNCHANGED <<mapVars, loadVars, fetchVars, reportVars>>
    /\ UNCHANGED <<cellml_files, idx, valid, stats, stats_json, runs, loads, outputs>>

(* The files of the workspace *)
ModelA ==
    [units |-> <<[name |-> <<"volt">>, dim |-> "voltage"]>>,
     components |->
        <<<<[name |-> VarName(1, 1), units |-> <<"volt">>]>>,
          <<[name |-> VarName(2, 1), units |-> <<"unknownunit">>]>>>>]

ModelB ==
    [units |-> <<>>,
     components |-> <<<<[name |-> VarName(1, 1), units |-> <<"Pa">>]>>>>]

FileContents ==
    {[kind |-> "undecodable", model |-> NoModel, valid |-> FALSE],
     [kind |-> "null",        model |-> NoModel, valid |-> FALSE],
     [kind |-> "model",       model |-> ModelA,  valid |-> TRUE],
     [kind |-> "model",       model |-> ModelB,  valid |-> FALSE]}

Workspaces ==
    {[k \in DOMAIN cs |-> [path |-> <<"file", k>>, kind |-> cs[k].kind,
                           model |-> cs[k].model, valid |-> cs[k].valid]] :
        cs \in SeqsUpTo(FileContents, MaxFiles)}

InitRun ==
    /\ main_pc = "start"
    /\ pc = "main"
    /\ cellml_files \in Workspaces
    /\ files \in [Paths -> {Absent} \cup Texts]
    /\ idx = 0
    /\ valid = FALSE
    /\ stats = <<>>
    /\ stats_json = Absent
    /\ runs = 0
    /\ loads = <<>>
    /\ outputs = <<>>
    /\ url = None
    /\ local_path = None
    /\ response = None
    /\ requests = <<>>
    /\ calls = 0
    /\ opb_map = <<>>
    /\ IdleMap
    /\ IdleLoad
    /\ IdleReport

NextRun ==
    \/ CallParseBaseline
    \/ TestExists
    \/ Get
    \/ RaiseForStatus
    \/ OpenForWriting
    \/ WriteText
    \/ ParseBaseline
    \/ CallLoadOpb
    \/ OpenRdf
    \/ ReadLine
    \/ ReturnTable
    \/ StartLoop
    \/ ReadFile
    \/ ResolveImports
    \/ ValidateModel
    \/ CallMapper
    \/ VisitVariable
    \/ NextComponent
    \/ ReturnMapping
    \/ AppendStats
    \/ SaveStats
    \/ Propagate

SpecRun == InitRun /\ [][NextRun]_vars

(* Properties of main *)

(* The run that is under way has loaded its reference data, has written    *)
(* its output document.                                                     *)
LoadedThisRun  == \E k \in DOMAIN loads : loads[k].run = runs
WrittenThisRun == \E k \in DOMAIN outputs : outputs[k].run = runs

(* C11: once a load of the reference data has succeeded in the working     *)
(* directory, no later step issues a request or changes a cache file, and  *)
(* every later load returns the baseline units and the ontology table of   *)
(* the first one.                                                          *)
C11_LoadIdempotent ==
    /\ [][loads # <<>> => (requests' = requests /\ files' = files)]_vars
    /\ [](\A k \in DOMAIN loads :
             /\ loads[k].baseline_units = loads[1].baseline_units
             /\ loads[k].opb_map = loads[1].opb_map)

(* The first load fetched both sources and wrote both cache files; a       *)
(* second load has returned the same non-empty data without a request.     *)
C11_Witness ==
    /\ Len(loads) = 2
    /\ requests = <<BASELINE_UNITS_URL, RDF_OPB_URL>>
    /\ calls = 4
    /\ loads[2].baseline_units # <<>>
    /\ DOMAIN loads[2].opb_map # {}

(* parse_baseline_units has returned to main in the run under way *)
BaselineReturned ==
    main_pc \in {"opb", "files", "parsed", "resolved", "validated", "mapping", "done"}

(* C12 as stated: loading never returns successfully with an empty         *)
(* baseline-unit mapping; a source that is fetched but holds no units      *)
(* makes the load fail.                                                    *)
C12_LoadedBaselineNotEmpty ==
    BaselineReturned => baseline_units # <<>>

(* C13: in a run that has not loaded both the baseline units and the       *)
(* ontology table, no file has been taken, parsed or mapped, no report     *)
(* built and no output document written; a failure of either load ends     *)
(* the run in that state.                                                  *)
C13_NoPartialRun ==
    ~LoadedThisRun =>
        /\ main_pc \in {"start", "baseline", "opb", "aborted"}
        /\ idx = 0
        /\ model = NoModel
        /\ total = 0
        /\ mapping_details = <<>>
        /\ stats = <<>>
        /\ ~WrittenThisRun
        /\ stats_json = IF outputs = <<>> THEN Absent ELSE outputs[Len(outputs)].doc

(* The baseline units were loaded, the fetch of the ontology table failed  *)
(* and the run has ended; the workspace holds a file that would parse.     *)
C13_Witness ==
    /\ main_pc = "aborted"
    /\ ~LoadedThisRun
    /\ baseline_units # <<>>
    /\ requests # <<>>
    /\ requests[Len(requests)] = RDF_OPB_URL
    /\ \E k \in DOMAIN cellml_files : cellml_files[k].kind = "model"
    /\ stats_json = Absent

(* C14 as stated: only a failure of the reference loading ends a run       *)
(* early; a run that has loaded its reference data is never aborted.       *)
C14_OnlyReferenceFailureAborts ==
    main_pc = "aborted" => ~LoadedThisRun

(* The paths of the files of the workspace that parse to a model, in the   *)
(* order the run discovered them                                           *)
RECURSIVE ParsedPaths(_)
ParsedPaths(list) ==
    IF list = <<>> THEN <<>>
    ELSE (IF Head(list).kind = "model" THEN <<Head(list).path>> ELSE <<>>)
         \o ParsedPaths(Tail(list))

ReportedPaths(reports) == [k \in DOMAIN reports |-> reports[k].file]

(* The loop is about to take a file whose parse yields no model *)
AtNullFile ==
    /\ main_pc = "files"
    /\ pc = "main"
    /\ idx < Len(cellml_files)
    /\ cellml_files[idx + 1].kind = "null"

C16_OneDocumentAtRunEnd ==
    /\ [][(stats_json' # stats_json \/ outputs' # outputs) =>
            /\ main_pc = "files"
            /\ pc = "main"
            /\ idx = Len(cellml_files)
            /\ main_pc' = "done"
            /\ stats_json' = stats
            /\ Len(outputs') = Len(outputs) + 1]_vars
    /\ [](/\ Cardinality({k \in DOMAIN outputs : outputs[k].run = runs}) <= 1
          /\ main_pc = "done" =>
                /\ WrittenThisRun
                /\ stats_json = outputs[Len(outputs)].doc
                /\ ReportedPaths(stats_json) = ParsedPaths(cellml_files))

(* Two files parsed to a model and the document of the finished run holds  *)
(* their two reports, the first file's first.                              *)
C16_Witness ==
    /\ main_pc = "done"
    /\ Len(stats_json) = 2
    /\ stats_json[1].file = cellml_files[1].path
    /\ stats_json[2].file = cellml_files[2].path
    /\ stats_json[1] # stats_json[2]

(* The reference data a run loaded *)
LoadOf(run) == loads[CHOOSE k \in DOMAIN loads : loads[k].run = run]

(* C17: two runs over the same files with the same baseline units and      *)
(* ontology table report every file alike: the same variables_total,       *)
(* variables_mapped and mapping_details, in whatever order each run        *)
(* discovered the files.                                                   *)
C17_RunsAgree ==
    \A i, j \in DOMAIN outputs :
        (/\ LoadOf(outputs[i].run).baseline_units = LoadOf(outputs[j].run).baseline_units
         /\ LoadOf(outputs[i].run).opb_map = LoadOf(outputs[j].run).opb_map)
        => Range(outputs[i].doc) = Range(outputs[j].doc)

(* Two runs have finished; they discovered two files in opposite orders    *)
(* and mapped a variable of each.                                          *)
C17_Witness ==
    /\ Len(outputs) = 2
    /\ Len(outputs[1].doc) = 2
    /\ outputs[1].doc[1] = outputs[2].doc[2]
    /\ outputs[1].doc[1] # outputs[1].doc[2]
    /\ \A r \in Range(outputs[1].doc) : r.variables_mapped = 1

(* C21: a file that parsed to a model goes through import resolution,      *)
(* then validation, then the mapper, and then its report is appended: no   *)
(* step is skipped or reordered, whatever validation returned (the result  *)
(* of import resolution is dropped), and a report is appended in no other  *)
(* way.                                                                    *)
C21_ParseResolveValidateMap ==
    [][/\ main_pc = "parsed" => main_pc' = "resolved"
       /\ main_pc = "resolved" => main_pc' = "validated"
       /\ main_pc = "validated" => (main_pc' = "mapping" /\ pc' = "loop")
       /\ main_pc = "mapping" =>
             \/ main_pc' = "mapping" /\ stats' = stats
             \/ /\ main_pc' = "files"
                /\ Len(stats') = Len(stats) + 1
                /\ stats'[Len(stats')].file = cellml_files[idx].path
       /\ Len(stats') > Len(stats) => (main_pc = "mapping" /\ pc = "returned")
       /\ (main_pc = "files" /\ main_pc' = "parsed") =>
             cellml_files[idx'].kind = "model"]_vars

(* A model that validation rejected has been mapped, a variable of it got  *)
(* a record, and its report is in the document of the finished run.        *)
C21_Witness ==
    /\ main_pc = "done"
    /\ \E k \in DOMAIN cellml_files, r \in DOMAIN stats_json :
          /\ cellml_files[k].kind = "model"
          /\ ~cellml_files[k].valid
          /\ stats_json[r].file = cellml_files[k].path
          /\ stats_json[r].variables_mapped = 1

(* main is in its per-file loop *)
InFileLoop ==
    main_pc \in {"files", "parsed", "resolved", "validated", "mapping"}

(* C23: from the start of the per-file loop to the end of the run no step, *)
(* of the mapper or of main, changes the baseline units or the ontology    *)
(* table; they are at every point the data the run loaded.                 *)
C23_ReferenceImmutable ==
    /\ [][InFileLoop => (baseline_units' = baseline_units /\ opb_map' = opb_map)]_vars
    /\ []((InFileLoop \/ main_pc = "done") =>
             /\ LoadedThisRun
             /\ baseline_units = LoadOf(runs).baseline_units
             /\ opb_map = LoadOf(runs).opb_map)

(* Two files have been mapped against a loaded table that is not empty.    *)
C23_Witness ==
    /\ main_pc = "done"
    /\ Len(stats) = 2
    /\ baseline_units # <<>>
    /\ DOMAIN opb_map # {}
    /\ \E r \in DOMAIN stats : stats[r].variables_mapped = 1

(* What the model in hand and the reference data determine: the variables  *)
(* in component-then-variable order, those whose unit name is known, and   *)
(* the record of each one that some baseline unit is compatible with.      *)
RECURSIVE Flatten(_)
Flatten(components) ==
    IF components = <<>> THEN <<>>
    ELSE Head(components) \o Flatten(Tail(components))

KnownName(name) == IsLocalName(name) \/ IsBaselineName(name)

FirstItem(S) == CHOOSE k \in S : \A l \in S : k <= l

RECURSIVE CountKnown(_)
CountKnown(variables) ==
    IF variables = <<>> THEN 0
    ELSE (IF KnownName(Head(variables).units) THEN 1 ELSE 0)
         + CountKnown(Tail(variables))

RECURSIVE ExpectedDetails(_)
ExpectedDetails(variables) ==
    IF variables = <<>> THEN <<>>
    ELSE LET var == Head(variables)
             items == IF KnownName(var.units)
                      THEN CompatibleItems(DeclaredUnits(var.units))
                      ELSE {}
         IN  (IF items = {} THEN <<>>
              ELSE <<[variable  |-> var.name,
                      unit      |-> var.units,
                      mapped_to |-> baseline_units[FirstItem(items)].key,
                      opb_code  |-> DictGet(opb_map,
                                            baseline_units[FirstItem(items)].key)]>>)
             \o ExpectedDetails(Tail(variables))

(* C24: the report appended for a file is determined by the model of that  *)
(* file and the reference data alone: its counts and records are what they *)
(* give, whatever files came before it and whatever reports the list       *)
(* already holds.                                                          *)
C24_ReportOfFileAlone ==
    [][Len(stats') > Len(stats) =>
         /\ SubSeq(stats', 1, Len(stats)) = stats
         /\ stats'[Len(stats')] =
               FileReport(cellml_files[idx].path,
                          CountKnown(Flatten(model.components)),
                          Len(ExpectedDetails(Flatten(model.components))),
                          ExpectedDetails(Flatten(model.components)))]_vars

(* Two files of the same model, taken one after the other, have reports    *)
(* that differ in the file path alone.                                     *)
C24_Witness ==
    /\ main_pc = "done"
    /\ Len(stats) = 2
    /\ stats[1].file # stats[2].file
    /\ stats[1].variables_total = 1
    /\ stats[1].variables_mapped = 1
    /\ stats[1].mapping_details # <<>>
    /\ stats[2].variables_total = stats[1].variables_total
    /\ stats[2].mapping_details = stats[1].mapping_details

----------------------------------------------------------------------------
(* generate_comprehensive_statistics, one step per pass of a loop *)

MaxReports == 2        \* FileReports of a result document
MaxDetails == 2        \* MappingRecords of a result document, over its reports

(* Unit categories *)
thermodynamic == {"K", "J", "mW", "S", "S_per_s"}
quantities    == {"um", "m2", "m3", "rad", "kg", "fmol", "kg_per_m2", "kg_per_m3",
                  "mM", "mol_per_m2", "C_per_m2", "C_per_m3"}
flow_rates    == {"m_per_s", "m2_per_s", "m3_per_s", "rad_per_s", "kg_per_s",
                  "fmol_per_s", "fA"}
efforts       == {"N", "J_per_m2", "Pa", "J_per_mol", "mV", "mM_per_s",
                  "mol_per_m2_s", "C_per_m2_s", "C_per_m3_s"}

Categories == {"Quantities", "Flow rates", "Efforts", "Thermodynamics"}

(* The if / elif chain of the categories: None when no branch is taken *)
Uncategorised(unit) == None

Category(unit) ==
    IF unit \in thermodynamic THEN Some("Thermodynamics")
    ELSE IF unit \in quantities THEN Some("Quantities")
    ELSE IF unit \in flow_rates THEN Some("Flow rates")
    ELSE IF unit \in efforts THEN Some("Efforts")
    ELSE None

(* `if opb_list:` of a value that is None or a list *)
NotNone(opb_list) == ~opb_list.isNone

Truthy(opb_list) == ~opb_list.isNone /\ opb_list.value # <<>>

(* with open(stats_json) ...: stats = json.load(f), and the accumulators *)
LoadStatsForWriting ==
    /\ pc = "report"
    /\ loaded_stats' = stats_json
    /\ stats_json' = <<>>
    /\ total_vars' = 0
    /\ mapped_vars' = 0
    /\ unmapped_vars' = 0
    /\ mapped_units' = <<>>
    /\ unmapped_units' = <<>>
    /\ opb_codes' = <<>>
    /\ category_counts' = [c \in Categories |-> 0]
    /\ file_k' = 0
    /\ detail_k' = 0
    /\ pc' = "file_stat"
    /\ UNCHANGED <<opb_map, mapLocals, loadVars, fetchVars>>
    /\ UNCHANGED <<main_pc, cellml_files, idx, valid, stats, runs, loads, outputs>>

LoadStats ==
    /\ pc = "report"
    /\ loaded_stats' = stats_json
    /\ total_vars' = 0
    /\ mapped_vars' = 0
    /\ unmapped_vars' = 0
    /\ mapped_units' = <<>>
    /\ unmapped_units' = <<>>
    /\ opb_codes' = <<>>
    /\ category_counts' = [c \in Categories |-> 0]
    /\ file_k' = 0
    /\ detail_k' = 0
    /\ pc' = "file_stat"
    /\ UNCHANGED <<opb_map, mapLocals, loadVars, fetchVars, runVars>>

(* for file_stat in stats: the two sums before the inner loop *)
EnterFileStat ==
    /\ pc = "file_stat"
    /\ file_k < Len(loaded_stats)
    /\ file_k' = file_k + 1
    /\ total_vars' = total_vars + loaded_stats[file_k + 1].variables_total
    /\ mapped_vars' = mapped_vars + loaded_stats[file_k + 1].variables_mapped
    /\ detail_k' = 0
    /\ pc' = "detail"
    /\ UNCHANGED <<loaded_stats, unmapped_vars, mapped_units, unmapped_units,
                   opb_codes, category_counts>>
    /\ UNCHANGED <<opb_map, mapLocals, loadVars, fetchVars, runVars>>

(* for detail in file_stat.get("mapping_details", []) *)
CountDetail ==
    /\ pc = "detail"
    /\ detail_k < Len(loaded_stats[file_k].mapping_details)
    /\ detail_k' = detail_k + 1
    /\ LET detail == loaded_stats[file_k].mapping_details[detail_k + 1]
           unit == detail.mapped_to
           opb_list == detail.opb_code
       IN  /\ mapped_units' = Append(mapped_units, unit)
           /\ opb_codes' = IF Truthy(opb_list)
                           THEN opb_codes \o opb_list.value
                           ELSE opb_codes
           /\ unmapped_units' = IF Truthy(opb_list)
                                THEN unmapped_units
                                ELSE Append(unmapped_units, unit)
           /\ category_counts' =
                 IF Truthy(opb_list) /\ ~Category(unit).isNone
                 THEN [category_counts EXCEPT ![Category(unit).value] = @ + 1]
                 ELSE category_counts
    /\ UNCHANGED <<pc, loaded_stats, file_k, total_vars, mapped_vars, unmapped_vars>>
    /\ UNCHANGED <<opb_map, mapLocals, loadVars, fetchVars, runVars>>

(* After the inner loop: unmapped_details if the report has them, and the  *)
(* variables not mapped.                                                   *)
LeaveFileStat ==
    /\ pc = "detail"
    /\ detail_k = Len(loaded_stats[file_k].mapping_details)
    /\ LET file_stat == loaded_stats[file_k]
       IN  /\ unmapped_units' =
                 IF "unmapped_details" \in DOMAIN file_stat
                 THEN unmapped_units \o
                      [k \in DOMAIN file_stat.unmapped_details |->
                          file_stat.unmapped_details[k].unit]
                 ELSE unmapped_units
           /\ unmapped_vars' = unmapped_vars
                               + file_stat.variables_total - file_stat.variables_mapped
    /\ pc' = "file_stat"
    /\ UNCHANGED <<loaded_stats, file_k, detail_k, total_vars, mapped_vars,
                   mapped_units, opb_codes, category_counts>>
    /\ UNCHANGED <<opb_map, mapLocals, loadVars, fetchVars, runVars>>

(* The loops are over: the counters and the tables are printed. *)
PrintReport ==
    /\ pc = "file_stat"
    /\ file_k = Len(loaded_stats)
    /\ pc' = "reported"
    /\ UNCHANGED <<opb_map, mapLocals, loadVars, fetchVars, runVars, reportVars>>

(* The documents main may have written: the names of three baseline units  *)
(* (an effort, a quantity, one of no category) and the three kinds of      *)
(* opb_code (no table entry, an entry without a code, an entry of codes).  *)
ReportNames == {"Pa", "kg", "furlong"}

ReportCodes == {None, Some(<<>>), Some(<<"OPB_00509">>)}

Details == [mapped_to : ReportNames, opb_code : ReportCodes]

NamedDetails(f, ds) ==
    [k \in DOMAIN ds |->
        [variable  |-> VarName(f, k),
         unit      |-> ds[k].mapped_to,
         mapped_to |-> ds[k].mapped_to,
         opb_code  |-> ds[k].opb_code]]

(* The numbers of records of the reports of a document *)
RECURSIVE Total(_)
Total(ns) == IF ns = <<>> THEN 0 ELSE Head(ns) + Total(Tail(ns))

Shapes == {ns \in SeqsUpTo(0..MaxDetails, MaxReports) : Total(ns) <= MaxDetails}

(* The records of report f among the records ds of a document of shape ns *)
DetailsOf(ns, ds, f) ==
    SubSeq(ds, Total(SubSeq(ns, 1, f - 1)) + 1, Total(SubSeq(ns, 1, f)))

(* A document of main of shape ns: variables_mapped is the number of the   *)
(* records of a report and variables_total counts the variables without a  *)
(* record as well, extra of them in each file.                             *)
Document(ns, ds, extra) ==
    [f \in DOMAIN ns |->
        FileReport(<<"file", f>>, ns[f] + extra, ns[f],
                   NamedDetails(f, DetailsOf(ns, ds, f)))]

InitReport ==
    /\ \E ns \in Shapes, extra \in {0, 1} :
          \E ds \in [1..Total(ns) -> Details] :
             stats_json = Document(ns, ds, extra)
    /\ pc = "report"
    /\ main_pc = "none"
    /\ cellml_files = <<>>
    /\ idx = 0
    /\ valid = FALSE
    /\ stats = <<>>
    /\ runs = 0
    /\ loads = <<>>
    /\ outputs = <<>>
    /\ opb_map = <<>>
    /\ IdleMap
    /\ IdleLoad
    /\ IdleFetch
    /\ IdleReport

NextReport ==
    \/ LoadStats
    \/ EnterFileStat
    \/ CountDetail
    \/ LeaveFileStat
    \/ PrintReport

SpecReport == InitReport /\ [][NextReport]_vars

(* Properties of generate_comprehensive_statistics *)

(* The inner loop is about to take a record *)
AtDetail ==
    /\ pc = "detail"
    /\ detail_k < Len(loaded_stats[file_k].mapping_details)

CurrentDetail == loaded_stats[file_k].mapping_details[detail_k + 1]

(* The counts of the categories after one more in category c *)
OneMoreIn(c) == [category_counts EXCEPT ![c] = @ + 1]

(* C18 as stated: every record whose mapped_to is Pa is counted under      *)
(* Efforts and every record whose mapped_to is kg under Quantities.        *)
C18_EveryRecordCategorised ==
    [][AtDetail =>
         /\ CurrentDetail.mapped_to = "Pa" => category_counts' = OneMoreIn("Efforts")
         /\ CurrentDetail.mapped_to = "kg" => category_counts' = OneMoreIn("Quantities")]_vars

(* C18: a record whose opb_code is a non-empty list is counted under       *)
(* Efforts, and there alone, when its mapped_to is Pa, and under           *)
(* Quantities when it is kg; a record whose opb_code is null or an empty   *)
(* list is counted in no category.                                         *)
C18_CodedRecordCategorised ==
    [][AtDetail =>
         IF Truthy(CurrentDetail.opb_code)
         THEN /\ CurrentDetail.mapped_to = "Pa" =>
                     category_counts' = OneMoreIn("Efforts")
              /\ CurrentDetail.mapped_to = "kg" =>
                     category_counts' = OneMoreIn("Quantities")
         ELSE category_counts' = category_counts]_vars

(* The report of a document of two coded records, one mapped to Pa and one *)
(* to kg, is printed with one effort and one quantity.                     *)
C18_Witness ==
    /\ pc = "reported"
    /\ mapped_units = <<"Pa", "kg">>
    /\ unmapped_units = <<>>
    /\ category_counts["Efforts"] = 1
    /\ category_counts["Quantities"] = 1

----------------------------------------------------------------------------
(* The end-to-end scenario of map_variable_units_to_opb *)

(* Two components of one variable each; the first variable has the unit    *)
(* volt, which is compatible with a baseline unit whose table entry is one *)
(* code; the name of the second variable's unit is neither a unit of the   *)
(* model nor a baseline unit.                                              *)
VoltAndUnknown ==
    /\ ComponentCount = 2
    /\ VariableCount(1) = 1
    /\ VariableCount(2) = 1
    /\ model.components[1][1].units = "volt"
    /\ IsLocalName("volt") \/ IsBaselineName("volt")
    /\ \E k \in CompatibleItems(DeclaredUnits("volt")) :
          /\ baseline_units[k].key \in DOMAIN opb_map
          /\ Len(opb_map[baseline_units[k].key]) = 1
    /\ ~IsLocalName(model.components[2][1].units)
    /\ ~IsBaselineName(model.components[2][1].units)

(* C19: in the scenario the function returns total = 1, mapped = 1 and     *)
(* one record, the record of the volt variable.                            *)
C19_EndToEnd ==
    (pc = "returned" /\ VoltAndUnknown) =>
        /\ total = 1
        /\ mapped = 1
        /\ Len(mapping_details) = 1
        /\ mapping_details[1].variable = model.components[1][1].name
        /\ mapping_details[1].unit = "volt"

(* The scenario has run to its return and the one record carries the one   *)
(* code of the baseline unit volt was mapped to.                           *)
C19_Witness ==
    /\ pc = "returned"
    /\ VoltAndUnknown
    /\ mapping_details # <<>>
    /\ mapping_details[1].mapped_to = "mV"
    /\ mapping_details[1].opb_code = Some(OpbCodes["mV"])
    /\ Len(OpbCodes["mV"]) = 1

----------------------------------------------------------------------------
(* The lines of the association file that change the table *)

(* The first token of a line: its atoms from the first that is not a blank *)
(* up to the next blank                                                    *)
FirstToken(raw) == Head(SplitOn(LStrip(raw), Blank))

(* What the claim asks of a line: not blank, no prefix declaration, both   *)
(* markers, and the ex: prefix on its first token.                         *)
Participates(raw) ==
    /\ \E k \in DOMAIN raw : raw[k] # Blank
    /\ Head(LStrip(raw)) # "@prefix"
    /\ \E k \in DOMAIN raw : raw[k] = "is_unit_of:"
    /\ \E k \in DOMAIN raw : raw[k] = "opb:OPB_"
    /\ Head(FirstToken(raw)) = "ex:"

(* C20: a line changes the ontology table only if it is not blank, does    *)
(* not begin with a prefix declaration, contains is_unit_of: and opb:OPB_  *)
(* and its first token begins with ex:; the pass over any other line       *)
(* leaves the table as it was.                                             *)
C20_OnlyParticipatingLinesChangeTable ==
    [][opb_map' # opb_map =>
         /\ line_no' = line_no + 1
         /\ Participates(rdf_lines[line_no + 1])]_vars

(* The table held the codes of um when a line of um with the predicate     *)
(* marker and no code marker was read; it holds them still.                *)
C20_Witness ==
    /\ line_no = 2
    /\ Qualifies(Strip(rdf_lines[1]))
    /\ SubjectName(Strip(rdf_lines[1])) = <<"um">>
    /\ rdf_lines[2] = <<"ex:", "um", Blank, "is_unit_of:", Blank, "opb:", "Length", Blank, ".">>
    /\ opb_map[<<"um">>] = ParseCodes(Strip(rdf_lines[1]))
    /\ opb_map[<<"um">>] # <<>>

----------------------------------------------------------------------------
(* More properties of generate_comprehensive_statistics *)

(* C22: no step of the report changes the result document, and the list    *)
(* loaded from it stays equal to it: every FileReport and MappingRecord is *)
(* left as it was written.                                                 *)
C22_ReportReadOnly ==
    /\ [][stats_json' = stats_json]_vars
    /\ [](pc # "report" => loaded_stats = stats_json)

(* The report of a document of two reports, one with two records, has been *)
(* printed and the document is the one that was loaded.                    *)
C22_Witness ==
    /\ pc = "reported"
    /\ Len(stats_json) = 2
    /\ \E f \in DOMAIN stats_json : Len(stats_json[f].mapping_details) = 2
    /\ Len(mapped_units) = 2
    /\ loaded_stats = stats_json

(* The sum of variables_total - variables_mapped over the first n reports  *)
RECURSIVE NotMappedUpTo(_)
NotMappedUpTo(n) ==
    IF n = 0 THEN 0
    ELSE NotMappedUpTo(n - 1)
         + loaded_stats[n].variables_total - loaded_stats[n].variables_mapped

(* The reports whose inner loop and closing sum are done *)
ReportsDone == IF pc = "detail" THEN file_k - 1 ELSE file_k

(* C28: every record adds its mapped_to to the mapped units; a record      *)
(* whose opb_code is null or an empty list adds it to the unmapped units   *)
(* too, adds no code and no category count, and leaves the number of       *)
(* variables not mapped alone; a record with codes adds its codes and      *)
(* nothing to the unmapped units.  The number of variables not mapped is   *)
(* the sum of variables_total - variables_mapped over the reports done.    *)
C28_RecordTables ==
    /\ [][AtDetail =>
            /\ mapped_units' = Append(mapped_units, CurrentDetail.mapped_to)
            /\ unmapped_vars' = unmapped_vars
            /\ IF CurrentDetail.opb_code.isNone \/ CurrentDetail.opb_code.value = <<>>
               THEN /\ unmapped_units' = Append(unmapped_units, CurrentDetail.mapped_to)
                    /\ opb_codes' = opb_codes
                    /\ category_counts' = category_counts
               ELSE /\ unmapped_units' = unmapped_units
                    /\ opb_codes' = opb_codes \o CurrentDetail.opb_code.value]_vars
    /\ [](pc \in {"file_stat", "detail", "reported"} =>
             unmapped_vars = NotMappedUpTo(ReportsDone))

(* A document whose every variable has a record: one record has a null     *)
(* code, one an empty list.  Both names are in the unmapped units and the  *)
(* number of variables not mapped is 0.                                    *)
C28_Witness ==
    /\ pc = "reported"
    /\ Len(mapped_units) = 2
    /\ unmapped_units = mapped_units
    /\ opb_codes = <<>>
    /\ unmapped_vars = 0
    /\ \E f \in DOMAIN loaded_stats : \E d \in DOMAIN loaded_stats[f].mapping_details :
          loaded_stats[f].mapping_details[d].opb_code = None
    /\ \E f \in DOMAIN loaded_stats : \E d \in DOMAIN loaded_stats[f].mapping_details :
          loaded_stats[f].mapping_details[d].opb_code = Some(<<>>)

----------------------------------------------------------------------------
(* More properties of download_file *)

(* C27: when the request raises or the answer has an error status, the     *)
(* call raises with the local file still absent: the step that raises      *)
(* changes no file, and after it the next call for the source finds no     *)
(* cache file and requests again.                                          *)
C27_FailedFetchLeavesNoFile ==
    /\ [][pc' = "raised" => (files' = files /\ pc \in {"get", "status"})]_vars
    /\ [](pc = "raised" => files[local_path.value] = Absent)

(* Two calls for the baseline units: the first request failed and left no  *)
(* file, the second call requested again and wrote the file.               *)
C27_Witness ==
    /\ pc = "idle"
    /\ calls = 2
    /\ requests = <<BASELINE_UNITS_URL, BASELINE_UNITS_URL>>
    /\ files[BASELINE_UNITS_LOCAL] \in Texts
    /\ ~response.isNone
    /\ response.value.status_code = 200

----------------------------------------------------------------------------
(* More properties of map_variable_units_to_opb *)

(* The place of the variable a record is about: VarName(c, v) *)
PlaceOf(record) == <<record.variable[2], record.variable[3]>>

(* Component-then-variable order *)
Precedes(p, q) == p[1] < q[1] \/ (p[1] = q[1] /\ p[2] < q[2])

(* C25: at every point of the function and at its return, mapped is the    *)
(* number of records, mapped <= total, total is at most the number of      *)
(* variables visited so far, every record is about a variable visited, no  *)
(* variable has two records, and the records are in component-then-        *)
(* variable order.                                                         *)
C25_CountsAndOrder ==
    /\ mapped = Len(mapping_details)
    /\ mapped <= total
    /\ total <= Cardinality(Visited)
    /\ \A k \in DOMAIN mapping_details : PlaceOf(mapping_details[k]) \in Visited
    /\ \A k, l \in DOMAIN mapping_details :
          k < l => Precedes(PlaceOf(mapping_details[k]), PlaceOf(mapping_details[l]))

(* The function has returned: of two variables in two components, both     *)
(* counted, the second alone has a record.                                 *)
C25_Witness ==
    /\ pc = "returned"
    /\ ComponentCount = 2
    /\ total = 2
    /\ mapped = 1
    /\ PlaceOf(mapping_details[1]) = <<2, 1>>

(* The place of a name among the keys of baseline_units *)
KeyIndex(name) == CHOOSE k \in DOMAIN baseline_units : baseline_units[k].key = name

(* The variable about to be visited names a baseline unit that the model   *)
(* does not declare, and that unit is compatible with itself.              *)
AtBaselineNamed ==
    /\ AtVariable
    /\ ~IsLocalName(CurrentVariable.units)
    /\ IsBaselineName(CurrentVariable.units)
    /\ compatible(DeclaredUnits(CurrentVariable.units),
                  DeclaredUnits(CurrentVariable.units))

(* C26: such a variable is counted in total and in mapped and gets one     *)
(* record, whose mapped_to is the key of a baseline unit at or before the  *)
(* unit it names in the order of baseline_units; it need not be that unit. *)
C26_BaselineNamedAlwaysMapped ==
    [][AtBaselineNamed =>
         /\ total' = total + 1
         /\ mapped' = mapped + 1
         /\ Len(mapping_details') = Len(mapping_details) + 1
         /\ LastRecord(mapping_details').variable = CurrentVariable.name
         /\ LastRecord(mapping_details').unit = CurrentVariable.units
         /\ IsBaselineName(LastRecord(mapping_details').mapped_to)
         /\ KeyIndex(LastRecord(mapping_details').mapped_to)
               <= KeyIndex(CurrentVariable.units)]_vars

(* A variable that names the second baseline unit, a unit the model does   *)
(* not declare, has the record of the first baseline unit.                 *)
C26_Witness ==
    /\ mapping_details # <<>>
    /\ ~IsLocalName(LastRecord(mapping_details).unit)
    /\ IsBaselineName(LastRecord(mapping_details).unit)
    /\ KeyIndex(LastRecord(mapping_details).unit) = 2
    /\ LastRecord(mapping_details).mapped_to = baseline_units[1].key

====
